---- MODULE Spec2Model ----
(***************************************************************************)
(* Model of the configuration-driven external-service invocation engine    *)
(* (utils/external_client.py, ExternalClient.run) and of the bearer-token  *)
(* cache built on it (utils/auth.py, obtener_token; utils/config.py,       *)
(* TOKEN_DATA).                                                            *)
(*                                                                         *)
(* The module also models three helpers of the same service: the Kuenta    *)
(* client's get_product_lines (SpecKuenta), the webinar webhook with its   *)
(* dedup cache (SpecWebinar) and the database pool of get_pool (SpecPool). *)
(*                                                                         *)
(* Five specifications cover the engine and the token cache:               *)
(*   SpecRun  one ExternalClient.run() invocation, one action per await    *)
(*            point of the coroutine;                                      *)
(*   SpecInvoke  an invocation by code: ExternalClient.from_code, then     *)
(*            run() as in SpecRun;                                         *)
(*   SpecRender  the rendering step of run() (_replace_variables,          *)
(*            _process_dict) on a client with its templates and context;   *)
(*   SpecSend  run() and the setters called on one client: what each       *)
(*            attempt of a run sends;                                      *)
(*   SpecTok  concurrent obtener_token() tasks interleaving at the awaits  *)
(*            of obtener_token.  ExternalClient.run() never reads or       *)
(*            writes TOKEN_DATA, so inside obtener_token its completion    *)
(*            runs there one attempt per step, with the per-attempt        *)
(*            classification (AttemptEffect) SpecRun steps through.        *)
(***************************************************************************)
EXTENDS Integers, Sequences, FiniteSets, TLC

(***************************************************************************)
(* Bounds of the model                                                     *)
(***************************************************************************)
MaxReintentos == 2      \* largest value of servicios_externos.reintentos
NumTasks == 2           \* concurrent callers of obtener_token
MaxCalls == 2           \* obtener_token calls made in all
MaxTime == 2            \* last second of the clock int(time.time())
MaxAuthReintentos == 1  \* largest reintentos of the AUTH_TOKEN row

(***************************************************************************)
(* Program constants                                                       *)
(***************************************************************************)
Margin == 30                \* safety margin of the cache check
DefaultExpiresIn == 3600    \* data.get("expires_in", 3600)
BackoffSeconds == 1         \* asyncio.sleep(1)

VARIABLES
    rc,          \* the frame of one ExternalClient.run() coroutine
    tk,          \* per task: the frame of its obtener_token() coroutine
    TOKEN_DATA,  \* utils.config.TOKEN_DATA (access_token, expires_at)
    now,         \* int(time.time())
    issued,      \* tokens the credential endpoint has issued so far
    ec,          \* an ExternalClient whose templates are rendered
    kc,          \* the frame of one clients.kuenta.get_product_lines() call
    wb,          \* webinar_request_cache, the clock and the webhook requests
    pl           \* db.connection: _pool, _pool_lock and the get_pool() callers

vars == <<rc, tk, TOKEN_DATA, now, issued, ec, kc, wb, pl>>

(***************************************************************************)
(* Transport outcomes of one `await client.request(...)`                   *)
(***************************************************************************)
StatusCodes == {200, 201, 204, 404, 500}

NoBody ==
    [shape |-> "none", access_token |-> 0, expires_in |-> 0,
     expires_int |-> TRUE, top_token |-> 0]

\* What response.json() can be ("text": it raises; a JSON value that is not an
\* object fails at the first .get the same way).  access_token: 1 when the object under
\* "data" has an access_token/token field, 0 when it has not; expires_in:
\* the value of the "expires_in" field under "data", 0 when it is absent;
\* expires_int: FALSE when that field is there with a value int() does not
\* take (JSON null: TypeError);
\* top_token: 1 when the JSON object itself has an "access_token" field.
Bodies ==
    { [shape |-> "dict_data", access_token |-> 1, expires_in |-> Margin + 1,
       expires_int |-> TRUE, top_token |-> 0],
      [shape |-> "dict_data", access_token |-> 1, expires_in |-> 0,
       expires_int |-> TRUE, top_token |-> 0],
      [shape |-> "dict_data", access_token |-> 1, expires_in |-> 0,
       expires_int |-> FALSE, top_token |-> 0],
      [shape |-> "dict_data", access_token |-> 0, expires_in |-> 0,
       expires_int |-> TRUE, top_token |-> 0],
      [shape |-> "dict_nodata", access_token |-> 0, expires_in |-> 0,
       expires_int |-> TRUE, top_token |-> 1],
      [shape |-> "dict_nodata", access_token |-> 0, expires_in |-> 0,
       expires_int |-> TRUE, top_token |-> 0],
      [shape |-> "text", access_token |-> 0, expires_in |-> 0,
       expires_int |-> TRUE, top_token |-> 0] }

HasToken(body) == body.access_token = 1 \/ body.top_token = 1

\* A service puts a token only in a 2xx response.
Responses ==
    { r \in [kind : {"resp"}, status : StatusCodes, body : Bodies] :
        HasToken(r.body) => r.status \in 200 .. 299 }

TransportErrors ==
    [kind : {"timeout", "conn", "other"}, status : {0}, body : {NoBody}]

TransportOutcomes == Responses \cup TransportErrors

InfoNotifyOutcomes == {"success", "error"}
InsertarLogOutcomes == {TRUE, FALSE}

(***************************************************************************)
(* Values returned by ExternalClient.run()                                 *)
(***************************************************************************)
NoData ==
    [kind |-> "none", access_token |-> 0, expires_in |-> 0,
     expires_int |-> TRUE]
EmptyDict ==
    [kind |-> "dict", access_token |-> 0, expires_in |-> 0,
     expires_int |-> TRUE]
ErrorData ==
    [kind |-> "error", access_token |-> 0, expires_in |-> 0,
     expires_int |-> TRUE]

DictResult(status, data) == [type |-> "dict", status |-> status, data |-> data]
JSONResponseResult(status) ==
    [type |-> "JSONResponse", status |-> status, data |-> ErrorData]
NoneResult == [type |-> "None", status |-> 0, data |-> NoData]

\* info_notify gathers send_info_telegram with return_exceptions=True and
\* send_info_telegram turns every failure into a {"status": "error"} result:
\* the coroutine returns normally for both outcomes.
info_notify(outcome) == "returned"

\* insertar_log catches every Exception and returns False.
insertar_log(dbOk) == dbOk

\* Mutant of LogError: _log_error without its try/except lets the TypeError
\* of json.dumps(self.body) go.
LogError_propagates(bodyOk, dbOk) ==
    [raised |-> ~bodyOk, called |-> bodyOk,
     persisted |-> bodyOk /\ insertar_log(dbOk)]

\* _log_error: inside try/except Exception it builds the arguments, among
\* them json.dumps(self.body), which raises TypeError when the body is not
\* JSON serializable (bodyOk false), and awaits insertar_log.  It returns
\* None in every case; called tells whether insertar_log was awaited,
\* persisted whether the audit row was written.
LogError(bodyOk, dbOk) ==
    [raised |-> FALSE, called |-> bodyOk,
     persisted |-> bodyOk /\ insertar_log(dbOk)]

\* Step 3 of run(): data = response.json(); response_data = data.get("data", {}).
\* A body that is not a JSON object ends in the bare except, where
\* data = {"raw_text": ...} has no "data" key.
ResponseData(body) ==
    IF body.shape = "dict_data"
    THEN [kind |-> "dict", access_token |-> body.access_token,
          expires_in |-> body.expires_in,
          expires_int |-> body.expires_int]
    ELSE EmptyDict

\* for attempt in range(self.reintentos + 1)
Attempts(reintentos) == 0 .. reintentos

\* Mutant of IsLastAttempt: the handlers give up one attempt early.
IsLastAttempt_early(attempt, reintentos) == attempt + 1 >= reintentos

\* if attempt == self.reintentos
IsLastAttempt(attempt, reintentos) == attempt = reintentos

\* if response.status_code == 200 or response.status_code == 201
IsSuccessStatus(status) == status = 200 \/ status = 201

\* Mutant of AttemptEffect: the handlers of the last attempt report a
\* success.
AttemptEffect_upgrade(reintentos, attempt, o) ==
    IF o.kind = "resp"
    THEN IF IsSuccessStatus(o.status)
         THEN [next |-> "notify_ok",
               result |-> DictResult(o.status, ResponseData(o.body))]
         ELSE [next |-> "log_http", result |-> NoneResult]
    ELSE IF IsLastAttempt(attempt, reintentos)
         THEN [next |-> "log_final", result |-> DictResult(200, EmptyDict)]
         ELSE [next |-> "sleep", result |-> NoneResult]

\* The body of the attempt loop for one transport outcome: what the
\* iteration does next ("notify_ok": notify and return; "log_http": audit
\* and go to the next iteration; "log_final": audit and return; "sleep":
\* back off and go to the next iteration) and the value a return carries.
AttemptEffect(reintentos, attempt, o) ==
    CASE o.kind = "resp" /\ IsSuccessStatus(o.status) ->
            [next |-> "notify_ok",
             result |-> DictResult(o.status, ResponseData(o.body))]
      [] o.kind = "resp" /\ ~IsSuccessStatus(o.status) ->
            [next |-> "log_http", result |-> NoneResult]
      [] o.kind = "timeout" ->
            IF IsLastAttempt(attempt, reintentos)
            THEN [next |-> "log_final", result |-> JSONResponseResult(504)]
            ELSE [next |-> "sleep", result |-> NoneResult]
      [] o.kind = "conn" ->
            IF IsLastAttempt(attempt, reintentos)
            THEN [next |-> "log_final", result |-> DictResult(503, ErrorData)]
            ELSE [next |-> "sleep", result |-> NoneResult]
      [] o.kind = "other" ->
            IF IsLastAttempt(attempt, reintentos)
            THEN [next |-> "log_final", result |-> DictResult(500, ErrorData)]
            ELSE [next |-> "sleep", result |-> NoneResult]

\* The for loop has another iteration after this one.
HasNextAttempt(reintentos, attempt) == attempt + 1 \in Attempts(reintentos)

(***************************************************************************)
(* ExternalClient.run(), one action per await                              *)
(***************************************************************************)
\* What the trace keeps of a transport outcome: its kind, the status code
\* and whether response.json() gave an object ("dict_data", "dict_nodata"),
\* raised ("text"), or there was no response ("none").
Brief(o) == [kind |-> o.kind, status |-> o.status, shape |-> o.body.shape]

\* serializable: json.dumps accepts the rendered headers and body; bodyOk:
\* it accepts self.body.  lookups, found: the from_code lookup that built
\* the client, when the invocation started there.
NewRun(reintentos, serializable) ==
    [pc |-> "init", reintentos |-> reintentos, serializable |-> serializable,
     bodyOk |-> serializable, lookups |-> 0, found |-> TRUE,
     attempt |-> 0, requests |-> 0, trace |-> <<>>, pending |-> NoneResult,
     result |-> NoneResult, audits |-> <<>>, sleeps |-> 0, notifs |-> 0]

\* Mutant of OuterExcept: the outermost handler lets the exception go.
OuterExcept_reraise(r) == [r EXCEPT !.pc = "raised"]

\* except Exception as e (outermost handler): audit, then return status 500.
OuterExcept(r) == [r EXCEPT !.pc = "log_critical"]

\* End of one loop iteration that did not return: next attempt, or fall out
\* of the for loop, of the async with and of the try, to the end of run().
NextIteration(r) ==
    IF HasNextAttempt(r.reintentos, r.attempt)
    THEN [r EXCEPT !.pc = "send", !.attempt = r.attempt + 1]
    ELSE [r EXCEPT !.pc = "done", !.result = NoneResult]

\* Step 1: render url, headers and body and log them with json.dumps, which
\* raises TypeError on a value that is not JSON serializable.
RunBegin ==
    /\ rc.pc = "init"
    /\ rc' = IF rc.serializable
             THEN [rc EXCEPT !.pc = "notify_pre"]
             ELSE OuterExcept(rc)
    /\ UNCHANGED <<kc, wb, pl, ec, tk, TOKEN_DATA, now, issued>>

\* await info_notify(...) before the request, inside try/except Exception.
NotifyPre ==
    /\ rc.pc = "notify_pre"
    /\ \E n \in InfoNotifyOutcomes :
          /\ info_notify(n) = "returned"
          /\ rc' = IF 0 \in Attempts(rc.reintentos)
                   THEN [rc EXCEPT !.pc = "send", !.notifs = @ + 1]
                   ELSE [rc EXCEPT !.pc = "done", !.notifs = @ + 1,
                                   !.result = NoneResult]
    /\ UNCHANGED <<kc, wb, pl, ec, tk, TOKEN_DATA, now, issued>>

\* Mutant of SendRequest: the next request leaves without the await of the
\* one before it.
SendRequest_eager ==
    /\ rc.pc \in {"send", "inflight"}
    /\ rc.requests <= rc.reintentos
    /\ rc' = [rc EXCEPT !.pc = "inflight", !.requests = @ + 1]
    /\ UNCHANGED <<kc, wb, pl, ec, tk, TOKEN_DATA, now, issued>>

\* response = await client.request(self.metodo, final_url, **kwargs): the
\* request leaves.
SendRequest ==
    /\ rc.pc = "send"
    /\ rc' = [rc EXCEPT !.pc = "inflight", !.requests = @ + 1]
    /\ UNCHANGED <<kc, wb, pl, ec, tk, TOKEN_DATA, now, issued>>

\* The await of client.request ends with a response or an exception and the
\* loop body classifies it.
ReceiveOutcome ==
    /\ rc.pc = "inflight"
    /\ \E o \in TransportOutcomes :
          LET e == AttemptEffect(rc.reintentos, rc.attempt, o)
          IN  rc' = [rc EXCEPT !.pc = e.next, !.pending = e.result,
                               !.trace = Append(@, Brief(o))]
    /\ UNCHANGED <<kc, wb, pl, ec, tk, TOKEN_DATA, now, issued>>

\* The success branch of step 4 after `await info_notify(...)` returned or
\* raised (how): the return of the success dict is the next statement of
\* the same try, and `except Exception as notify_err` only logs, after
\* which the iteration of the loop ends.
NotifyOkStep(r, how) ==
    IF how = "returned"
    THEN [r EXCEPT !.pc = "done", !.notifs = @ + 1, !.result = r.pending]
    ELSE NextIteration(r)

\* await info_notify(...) after a 200/201, then return the success dict.
NotifyOk ==
    /\ rc.pc = "notify_ok"
    /\ \E n \in InfoNotifyOutcomes :
          rc' = NotifyOkStep(rc, info_notify(n))
    /\ UNCHANGED <<kc, wb, pl, ec, tk, TOKEN_DATA, now, issued>>

\* The audit rows asked of insertar_log so far: a call of _log_error that
\* fails before awaiting insertar_log adds none.
Audited(r, l, code) ==
    IF l.called
    THEN [r EXCEPT !.audits = Append(@, [code |-> code,
                                         persisted |-> l.persisted])]
    ELSE r

\* The frame after `await self._log_error(...)` returned or raised (l), at
\* each of the three places that call it.
LogHttpStep(r, l) ==
    IF l.raised
    THEN OuterExcept(r)
    ELSE NextIteration(Audited(r, l, r.trace[Len(r.trace)].status))

LogFinalStep(r, l) ==
    IF l.raised
    THEN OuterExcept(r)
    ELSE [Audited(r, l, r.pending.status) EXCEPT
             !.pc = "done", !.result = r.pending]

LogCriticalStep(r, l) ==
    IF l.raised
    THEN [r EXCEPT !.pc = "raised"]
    ELSE [Audited(r, l, 500) EXCEPT
             !.pc = "done", !.result = DictResult(500, ErrorData)]

\* else branch of step 4: await self._log_error(status=response.status_code,
\* ...) and nothing else; the iteration ends.
LogHttp ==
    /\ rc.pc = "log_http"
    /\ \E db \in InsertarLogOutcomes :
          rc' = LogHttpStep(rc, LogError(rc.bodyOk, db))
    /\ UNCHANGED <<kc, wb, pl, ec, tk, TOKEN_DATA, now, issued>>

\* except handlers on the last attempt: await self._log_error(...), return.
LogFinal ==
    /\ rc.pc = "log_final"
    /\ \E db \in InsertarLogOutcomes :
          rc' = LogFinalStep(rc, LogError(rc.bodyOk, db))
    /\ UNCHANGED <<kc, wb, pl, ec, tk, TOKEN_DATA, now, issued>>

\* Outermost handler: await self._log_error(500, ...), return status 500.
LogCritical ==
    /\ rc.pc = "log_critical"
    /\ \E db \in InsertarLogOutcomes :
          rc' = LogCriticalStep(rc, LogError(rc.bodyOk, db))
    /\ UNCHANGED <<kc, wb, pl, ec, tk, TOKEN_DATA, now, issued>>

\* except handlers on an earlier attempt: await asyncio.sleep(1).
Sleep ==
    /\ rc.pc = "sleep"
    /\ rc' = NextIteration([rc EXCEPT !.sleeps = @ + BackoffSeconds])
    /\ UNCHANGED <<kc, wb, pl, ec, tk, TOKEN_DATA, now, issued>>

NextRun ==
    \/ RunBegin
    \/ NotifyPre
    \/ SendRequest
    \/ ReceiveOutcome
    \/ NotifyOk
    \/ LogHttp
    \/ LogFinal
    \/ LogCritical
    \/ Sleep

(***************************************************************************)
(* obtener_token(), one action per await                                   *)
(***************************************************************************)
Tasks == 1 .. NumTasks

\* torn: access_token was assigned by a refresh that did not go on to assign
\* expires_at.
EmptyTokenData == [access_token |-> 0, expires_at |-> 0, torn |-> FALSE]

\* snap: what line 15 read when the call started (the cached token and the
\* seconds left to its expiry), kept until the call returns the cached
\* token or leaves the await of from_code.
NoSnap == [taken |-> FALSE, access_token |-> 0, left |-> 0]

NewTask ==
    [pc |-> "idle", calls |-> 0, reintentos |-> 0, attempt |-> 0,
     snap |-> NoSnap,
     hit |-> FALSE, nets |-> 0, failed |-> FALSE, ret |-> 0,
     fresh |-> FALSE, stored |-> FALSE]

RECURSIVE SumOver(_, _)
SumOver(f, S) ==
    IF S = {} THEN 0
    ELSE LET x == CHOOSE y \in S : TRUE IN f[x] + SumOver(f, S \ {x})

\* obtener_token calls started so far, and HTTP requests the calls now in
\* tk have sent to the credential endpoint.
TotalCalls == SumOver([t \in Tasks |-> tk[t].calls], Tasks)
NetCalls == SumOver([t \in Tasks |-> tk[t].nets], Tasks)

\* obtener_servicio_externo_por_codigo("AUTH_TOKEN"): the active row, or None
\* (no active row, or any database error).
Servicios ==
    {[found |-> FALSE, reintentos |-> 0]}
        \cup {[found |-> TRUE, reintentos |-> r] : r \in 0 .. MaxReintentos}

\* The AUTH_TOKEN row obtener_token loads.
AuthServicios == {x \in Servicios : x.reintentos <= MaxAuthReintentos}

\* Mutant of CacheValid: the comparison with the margin is not strict.
CacheValid_inclusive(td, t) == td.access_token # 0 /\ td.expires_at >= t + Margin

\* if TOKEN_DATA.get("access_token") and
\*    TOKEN_DATA.get("expires_at", 0) > int(time.time()) + 30
CacheValid(td, t) == td.access_token # 0 /\ td.expires_at > t + Margin

\* expires = data.get("expires_in", 3600)
ExpiresIn(data) ==
    IF data.expires_in = 0 THEN DefaultExpiresIn ELSE data.expires_in

\* The token invocation did not succeed: run() returned something other than
\* a dict with a 2xx status.
RunFailed(result) == result.type # "dict" \/ result.status \notin 200 .. 299

\* The direct POST of the fallback did not succeed.
PostFailed(o) == o.kind # "resp" \/ o.status \notin 200 .. 299

\* Lines 14-16: the call starts; a valid cached token is returned at once,
\* otherwise the coroutine awaits ExternalClient.from_code("AUTH_TOKEN").
Call(t) ==
    /\ tk[t].pc \in {"idle", "returned", "raised"}
    /\ TotalCalls < MaxCalls
    /\ LET base == [NewTask EXCEPT
                        !.calls = tk[t].calls + 1,
                        !.snap = [taken |-> TRUE,
                                  access_token |-> TOKEN_DATA.access_token,
                                  left |-> TOKEN_DATA.expires_at - now]]
       IN  tk' = [tk EXCEPT ![t] =
                    IF CacheValid(TOKEN_DATA, now)
                    THEN [base EXCEPT !.pc = "returned", !.hit = TRUE,
                                      !.ret = TOKEN_DATA.access_token]
                    ELSE [base EXCEPT !.pc = "from_code"]]
    /\ UNCHANGED <<kc, wb, pl, ec, rc, TOKEN_DATA, now, issued>>

\* Line 20 and from_code: no active definition raises ValueError, which the
\* except ValueError of obtener_token turns into the fallback.
FromCode(t) ==
    /\ tk[t].pc = "from_code"
    /\ \E servicio \in AuthServicios :
          tk' = [tk EXCEPT ![t] =
                    IF servicio.found
                    THEN [@ EXCEPT !.pc = "run", !.snap = NoSnap,
                                   !.reintentos = servicio.reintentos]
                    ELSE [@ EXCEPT !.pc = "fallback", !.snap = NoSnap]]
    /\ UNCHANGED <<kc, wb, pl, ec, rc, TOKEN_DATA, now, issued>>

\* Lines 32-42 applied to the value run() returned.  Subscripting None or a
\* JSONResponse raises TypeError; a status other than 200 raises Exception.
\* Neither is a ValueError, so both leave obtener_token.  With status 200,
\* line 38 assigns TOKEN_DATA["access_token"] and line 39 evaluates
\* int(expires) before it assigns TOKEN_DATA["expires_at"]: when int()
\* raises TypeError the first assignment stays and the exception leaves
\* obtener_token.
UseResult(t, result) ==
    IF result.type = "dict" /\ result.status = 200
    THEN LET token == IF result.data.access_token # 0 THEN issued + 1 ELSE 0
         IN  /\ issued' = IF token # 0 THEN issued + 1 ELSE issued
             /\ IF result.data.expires_int
                THEN /\ TOKEN_DATA' =
                           [access_token |-> token,
                            expires_at |-> now + ExpiresIn(result.data),
                            torn |-> FALSE]
                     /\ tk' = [tk EXCEPT ![t] =
                                 [@ EXCEPT !.pc = "returned", !.ret = token,
                                           !.reintentos = 0, !.attempt = 0,
                                           !.nets = @ + 1,
                                           !.fresh = token # 0,
                                           !.stored = TRUE,
                                           !.failed = RunFailed(result)]]
                ELSE /\ TOKEN_DATA' =
                           [TOKEN_DATA EXCEPT !.access_token = token,
                                              !.torn = TRUE]
                     /\ tk' = [tk EXCEPT ![t] =
                                 [@ EXCEPT !.pc = "raised", !.nets = @ + 1,
                                           !.reintentos = 0, !.attempt = 0,
                                           !.failed = RunFailed(result)]]
    ELSE /\ tk' = [tk EXCEPT ![t] =
                     [@ EXCEPT !.pc = "raised", !.nets = @ + 1,
                               !.reintentos = 0, !.attempt = 0,
                               !.failed = RunFailed(result)]]
         /\ UNCHANGED <<TOKEN_DATA, issued>>

\* Line 30: one attempt of `await ext_client.run()` against the credential
\* endpoint.
TokAttempt(t) ==
    /\ tk[t].pc = "run"
    /\ \E e \in {AttemptEffect(tk[t].reintentos, tk[t].attempt, o) :
                    o \in TransportOutcomes} :
          IF e.next \in {"notify_ok", "log_final"}
          THEN UseResult(t, e.result)
          ELSE IF HasNextAttempt(tk[t].reintentos, tk[t].attempt)
               THEN /\ tk' = [tk EXCEPT ![t] =
                                [@ EXCEPT !.attempt = @ + 1, !.nets = @ + 1]]
                    /\ UNCHANGED <<TOKEN_DATA, issued>>
               ELSE UseResult(t, NoneResult)
    /\ UNCHANGED <<kc, wb, pl, ec, rc, now>>

\* Lines 44-50: POST with httpx directly, data = resp.json(),
\* return data.get("access_token").  The status is not looked at and
\* TOKEN_DATA is not written.
Fallback(t) ==
    /\ tk[t].pc = "fallback"
    /\ \E r \in {[parsed |-> o.kind = "resp"
                               /\ o.body.shape \in {"dict_data", "dict_nodata"},
                    top_token |-> o.body.top_token,
                    failed |-> PostFailed(o)] : o \in TransportOutcomes} :
          LET token == IF r.parsed /\ r.top_token = 1 THEN issued + 1 ELSE 0
          IN  /\ tk' = [tk EXCEPT ![t] =
                          [@ EXCEPT !.pc = IF r.parsed THEN "returned"
                                                       ELSE "raised",
                                    !.ret = token, !.nets = @ + 1,
                                    !.fresh = token # 0,
                                    !.failed = r.failed]]
              /\ issued' = IF token # 0 THEN issued + 1 ELSE issued
    /\ UNCHANGED <<kc, wb, pl, ec, rc, TOKEN_DATA, now>>

\* int(time.time()) advances.
Tick ==
    /\ now < MaxTime
    /\ now' = now + 1
    /\ UNCHANGED <<kc, wb, pl, ec, rc, tk, TOKEN_DATA, issued>>

NextTok ==
    \/ \E t \in Tasks : Call(t)
    \/ \E t \in Tasks : FromCode(t)
    \/ \E t \in Tasks : TokAttempt(t)
    \/ \E t \in Tasks : Fallback(t)
    \/ Tick

(***************************************************************************)
(* An invocation by code: ExternalClient.from_code(codigo), then run()      *)
(***************************************************************************)
\* The clients a caller can hand to run(): reintentos, and headers and body
\* that json.dumps can serialize, or a header it cannot, or a body it
\* cannot.
Clients ==
    {[NewRun(c[1], c[2]) EXCEPT !.bodyOk = c[3]] :
        c \in {x \in (0 .. MaxReintentos) \X BOOLEAN \X BOOLEAN :
                   x[2] => x[3]}}

\* Mutant of FromCodeBuild: a miss is looked up again.
FromCodeBuild_retry(r, servicio, c) ==
    IF servicio.found
    THEN [c EXCEPT !.lookups = r.lookups + 1, !.found = TRUE]
    ELSE [r EXCEPT !.lookups = @ + 1, !.found = FALSE]

\* from_code after `servicio = await obtener_servicio_externo_por_codigo(
\* codigo)`: `if not servicio: raise ValueError("... no encontrado en BD")`,
\* else the instance built from the row (c, with the row's reintentos),
\* which the caller then runs.  Nothing else happens on a miss: no second
\* lookup, no call of _log_error.
FromCodeBuild(r, servicio, c) ==
    IF servicio.found
    THEN [c EXCEPT !.lookups = r.lookups + 1, !.found = TRUE]
    ELSE [r EXCEPT !.pc = "config_missing", !.lookups = @ + 1,
                   !.found = FALSE]

\* ExternalClient.from_code: one lookup of the active row.
FromCodeLoad ==
    /\ rc.pc = "from_code"
    /\ \E servicio \in Servicios :
         \E c \in {x \in Clients : x.reintentos = servicio.reintentos} :
             rc' = FromCodeBuild(rc, servicio, c)
    /\ UNCHANGED <<kc, wb, pl, ec, tk, TOKEN_DATA, now, issued>>

NextInvoke ==
    \/ FromCodeLoad
    \/ NextRun

(***************************************************************************)
(* Rendering: VAR_PATTERN, _replace_variables, _process_dict                *)
(***************************************************************************)
\* Strings are sequences of characters.
Alphabet == {"{", "}", "a", "b"}

StringsUpTo(n) == UNION {[1 .. k -> Alphabet] : k \in 0 .. n}

\* Python values: str, int, None, dict (keys in insertion order, kids the
\* values under them), list (kids the elements).
StrNode(s) == [t |-> "str", s |-> s, n |-> 0, keys |-> <<>>, kids |-> <<>>]
IntNode(n) == [t |-> "int", s |-> <<>>, n |-> n, keys |-> <<>>, kids |-> <<>>]
NoneNode == [t |-> "none", s |-> <<>>, n |-> 0, keys |-> <<>>, kids |-> <<>>]
DictNode(keys, kids) ==
    [t |-> "dict", s |-> <<>>, n |-> 0, keys |-> keys, kids |-> kids]
ListNode(kids) ==
    [t |-> "list", s |-> <<>>, n |-> 0, keys |-> <<>>, kids |-> kids]

DigitChar == <<"0", "1", "2", "3", "4", "5", "6", "7", "8", "9">>

\* str(value) for the values a context holds: a str is itself, an int below
\* ten its digit, None the text "None".
Str(v) ==
    CASE v.t = "str" -> v.s
      [] v.t = "int" -> <<DigitChar[v.n + 1]>>
      [] OTHER -> <<"N", "o", "n", "e">>

\* The position of the first "}" of s at or after i, 0 when there is none.
RECURSIVE FirstClose(_, _)
FirstClose(s, i) ==
    IF i > Len(s) THEN 0
    ELSE IF s[i] = "}" THEN i
    ELSE FirstClose(s, i + 1)

\* VAR_PATTERN = re.compile(r'\{([^}]+)\}') tried at position i: "{", one or
\* more characters other than "}" (taken greedily, so up to the first "}"),
\* then "}".  name is group(1), stop the position of the closing "}".
MatchAt(s, i) ==
    LET j == FirstClose(s, i + 1)
    IN  IF s[i] = "{" /\ j > i + 1
        THEN [found |-> TRUE, stop |-> j, name |-> SubSeq(s, i + 1, j - 1)]
        ELSE [found |-> FALSE, stop |-> i, name |-> <<>>]

\* Mutant of replacer: a name the context lacks is replaced by nothing.
replacer_blank(var_name, group0, dynamic_values) ==
    IF var_name \in DOMAIN dynamic_values
    THEN Str(dynamic_values[var_name])
    ELSE <<>>

\* replacer(match): str(self.dynamic_values[var_name]) when var_name is a key
\* of dynamic_values, else match.group(0).
replacer(var_name, group0, dynamic_values) ==
    IF var_name \in DOMAIN dynamic_values
    THEN Str(dynamic_values[var_name])
    ELSE group0

\* VAR_PATTERN.sub(replacer, text) from position i on: matches are taken
\* leftmost first and do not overlap; the replacement is not scanned again.
RECURSIVE Sub(_, _, _)
Sub(s, i, dynamic_values) ==
    IF i > Len(s) THEN <<>>
    ELSE LET m == MatchAt(s, i)
         IN  IF m.found
             THEN replacer(m.name, SubSeq(s, i, m.stop), dynamic_values)
                      \o Sub(s, m.stop + 1, dynamic_values)
             ELSE <<s[i]>> \o Sub(s, i + 1, dynamic_values)

\* Mutant of replace_variables: the substituted text is resolved once more.
replace_variables_again(text, dynamic_values) ==
    IF text.t # "str" THEN text
    ELSE StrNode(Sub(Sub(text.s, 1, dynamic_values), 1, dynamic_values))

\* _replace_variables: a value that is not a str is returned as it is.
replace_variables(text, dynamic_values) ==
    IF text.t # "str" THEN text ELSE StrNode(Sub(text.s, 1, dynamic_values))

\* _process_dict: a value that is not a dict is returned as it is; of a dict
\* a new dict is built, key by key: a str value is replaced, a dict value
\* processed, of a list value the elements that are dicts are processed and
\* every other element is kept, any other value is kept.
RECURSIVE process_dict(_, _)
process_dict(d, dynamic_values) ==
    IF d.t # "dict" THEN d
    ELSE DictNode(d.keys,
           [k \in 1 .. Len(d.kids) |->
              LET value == d.kids[k]
              IN  CASE value.t = "str" ->
                         replace_variables(value, dynamic_values)
                    [] value.t = "dict" -> process_dict(value, dynamic_values)
                    [] value.t = "list" ->
                         ListNode([i \in 1 .. Len(value.kids) |->
                            IF value.kids[i].t = "dict"
                            THEN process_dict(value.kids[i], dynamic_values)
                            ELSE value.kids[i]])
                    [] OTHER -> value])

(***************************************************************************)
(* An ExternalClient and the rendering step of run()                       *)
(***************************************************************************)
MaxUrlLen == 4      \* longest url template
MaxLeafLen == 3     \* longest str inside a header or body
MaxDepth == 3       \* deepest nesting of dicts and lists in a body
MaxRuns == 2        \* run() calls on one client

EmptyDictNode == DictNode(<<>>, <<>>)

\* The values without parts: strings, an int, None.
Leaves == {StrNode(s) : s \in StringsUpTo(MaxLeafLen)} \cup {IntNode(0), NoneNode}

\* Values nested at most d deep; a dict or list holds at most one entry.
RECURSIVE ValuesOfDepth(_)
ValuesOfDepth(d) ==
    IF d = 0 THEN Leaves
    ELSE LET inner == ValuesOfDepth(d - 1)
         IN  Leaves \cup {EmptyDictNode, ListNode(<<>>)}
                 \cup {DictNode(<<"k">>, <<v>>) : v \in inner}
                 \cup {ListNode(<<v>>) : v \in inner}

\* url, header and body of a servicios_externos row or of set_url,
\* set_headers, set_body.
Urls == {StrNode(s) : s \in StringsUpTo(MaxUrlLen)} \cup {NoneNode}
Headers == {v \in ValuesOfDepth(1) : v.t = "dict"}
BodyTemplates == {v \in ValuesOfDepth(MaxDepth) : v.t = "dict"}

\* The dicts a caller passes to set_dynamic_values: names "a" and "b", values
\* a str, a str that is itself a placeholder, and a falsy int.
Names == {<<"a">>, <<"b">>}
ContextValues == {StrNode(<<"b">>), StrNode(<<"{", "b", "}">>), IntNode(0)}
Contexts == UNION {[D -> ContextValues] : D \in SUBSET Names}

\* __init__: self.dynamic_values = {}.  final: the values run() rendered
\* last; first: those of its first rendering; before: url, header, body and
\* dynamic_values as they were when the last rendering began; sent: the
\* requests the attempts of the last run() have sent.
NoFinal == [url |-> NoneNode, header |-> NoneNode, body |-> NoneNode]

Self(c) ==
    [url |-> c.url, header |-> c.header, body |-> c.body,
     dynamic_values |-> c.dynamic_values]

NewClient(url, header, body) ==
    [pc |-> "built", url |-> url, header |-> header, body |-> body,
     dynamic_values |-> <<>>, runs |-> 0, final |-> NoFinal,
     first |-> NoFinal, sent |-> <<>>,
     before |-> [url |-> url, header |-> header, body |-> body,
                 dynamic_values |-> <<>>]]

IdleClient == NewClient(StrNode(<<>>), EmptyDictNode, EmptyDictNode)

Templates ==
    {NewClient(u, EmptyDictNode, EmptyDictNode) : u \in Urls}
        \cup {NewClient(StrNode(<<>>), h, EmptyDictNode) : h \in Headers}
        \cup {NewClient(StrNode(<<>>), EmptyDictNode, b) : b \in BodyTemplates}

\* dict.update: the keys of values override, the others stay.
Update(old, values) ==
    [k \in DOMAIN old \cup DOMAIN values |->
        IF k \in DOMAIN values THEN values[k] ELSE old[k]]

\* if self.body: an empty dict is falsy.
Truthy(v) == ~(v.t = "dict" /\ Len(v.kids) = 0)

\* Step 1 of run(): final_url, final_headers, final_body.
Rendered(c) ==
    [url |-> replace_variables(c.url, c.dynamic_values),
     header |-> process_dict(c.header, c.dynamic_values),
     body |-> IF Truthy(c.body) THEN process_dict(c.body, c.dynamic_values)
              ELSE EmptyDictNode]

\* Mutant of SelfAfterRender: the templates are rendered in place.
SelfAfterRender_inplace(c) ==
    [c EXCEPT !.url = Rendered(c).url, !.header = Rendered(c).header,
              !.body = Rendered(c).body]

\* The instance after step 1 of run(): _replace_variables returns a new str,
\* _process_dict fills a new dict `result`, run() binds the results to locals;
\* no attribute of self and no entry of self.header, self.body or
\* self.dynamic_values is assigned.
SelfAfterRender(c) == c

\* set_dynamic_values(values), before the first run().
SetDynamicValues ==
    /\ ec.pc = "built"
    /\ ec.runs = 0
    /\ \E values \in Contexts :
          ec' = [ec EXCEPT !.pc = "ready",
                           !.dynamic_values = Update(@, values)]
    /\ UNCHANGED <<kc, wb, pl, rc, tk, TOKEN_DATA, now, issued>>

\* The client when run() has done step 1.
AfterStep1(c) ==
    [SelfAfterRender(c) EXCEPT
        !.runs = @ + 1,
        !.final = Rendered(c),
        !.first = IF c.runs = 0 THEN Rendered(c) ELSE @,
        !.before = Self(c),
        !.sent = <<>>]

\* run() up to the end of step 1.
Render ==
    /\ ec.runs < MaxRuns
    /\ ec' = AfterStep1(ec)
    /\ UNCHANGED <<kc, wb, pl, rc, tk, TOKEN_DATA, now, issued>>

NextRender ==
    \/ SetDynamicValues
    \/ Render

(***************************************************************************)
(* The attempts of a run() on a client other coroutines call setters on    *)
(***************************************************************************)
\* Mutant of RequestOf: every attempt renders the templates again.
RequestOf_rerender(c) == Rendered(c)

\* kwargs of an attempt: {"headers": final_headers}, json or params
\* final_body, sent to final_url; the three are the locals step 1 bound.
RequestOf(c) == c.final

\* The run() whose attempts are followed, up to the end of step 1.
BeginRun ==
    /\ ec.runs = 0
    /\ ec' = AfterStep1(ec)
    /\ UNCHANGED <<kc, wb, pl, rc, tk, TOKEN_DATA, now, issued>>

\* client.request(self.metodo, final_url, **kwargs) of one more attempt.
SendAttempt ==
    /\ ec.runs >= 1
    /\ Len(ec.sent) < MaxReintentos + 1
    /\ ec' = [ec EXCEPT !.sent = Append(@, RequestOf(ec))]
    /\ UNCHANGED <<kc, wb, pl, rc, tk, TOKEN_DATA, now, issued>>

\* dict.update on a dict value: the values under keys of d that other has
\* are replaced in place, the keys d lacks are added at the end.
IndexOf(keys, k) == CHOOSE i \in 1 .. Len(keys) : keys[i] = k
HasKey(d, k) == \E i \in 1 .. Len(d.keys) : d.keys[i] = k
DictUpdate(d, other) ==
    LET added == SelectSeq(other.keys, LAMBDA k : ~HasKey(d, k))
    IN  DictNode(d.keys \o added,
                 [i \in 1 .. Len(d.keys) + Len(added) |->
                    LET k == (d.keys \o added)[i]
                    IN  IF HasKey(other, k)
                        THEN other.kids[IndexOf(other.keys, k)]
                        ELSE d.kids[i]])

\* What another coroutine passes to the setters while run() is suspended.
LateContexts == {c \in Contexts : DOMAIN c = {<<"a">>}}
LateHeaders == {DictNode(<<"k">>, <<StrNode(<<"{", "a", "}">>)>>),
                DictNode(<<"h">>, <<StrNode(<<"b">>)>>)}
LateBodies == {EmptyDictNode, DictNode(<<"k">>, <<StrNode(<<"{", "b", "}">>)>>)}

\* set_dynamic_values(values) while run() is suspended at an await.
SetDynamicValuesLate ==
    /\ ec.runs >= 1
    /\ \E values \in LateContexts :
          ec' = [ec EXCEPT !.dynamic_values = Update(@, values)]
    /\ UNCHANGED <<kc, wb, pl, rc, tk, TOKEN_DATA, now, issued>>

\* set_headers(headers) while run() is suspended: self.header.update.
SetHeadersLate ==
    /\ ec.runs >= 1
    /\ \E headers \in LateHeaders :
          ec' = [ec EXCEPT !.header = DictUpdate(@, headers)]
    /\ UNCHANGED <<kc, wb, pl, rc, tk, TOKEN_DATA, now, issued>>

\* set_body(body) while run() is suspended: self.body = body or {}.
SetBodyLate ==
    /\ ec.runs >= 1
    /\ \E body \in LateBodies :
          ec' = [ec EXCEPT !.body = body]
    /\ UNCHANGED <<kc, wb, pl, rc, tk, TOKEN_DATA, now, issued>>

NextSend ==
    \/ SetDynamicValues
    \/ BeginRun
    \/ SendAttempt
    \/ SetDynamicValuesLate
    \/ SetHeadersLate
    \/ SetBodyLate

\* The clients whose attempts are followed: url, header and body with and
\* without a placeholder.
SendTemplates ==
    {NewClient(u, h, b) :
        u \in {StrNode(<<"{", "a", "}">>), StrNode(<<"a">>)},
        h \in {EmptyDictNode, DictNode(<<"k">>, <<StrNode(<<"{", "b", "}">>)>>)},
        b \in {EmptyDictNode, DictNode(<<"k">>, <<StrNode(<<"{", "a", "}">>)>>),
                DictNode(<<"k">>, <<ListNode(<<StrNode(<<"{", "a", "}">>)>>)>>)}}

(***************************************************************************)
(* clients/kuenta.py: get_product_lines                                    *)
(***************************************************************************)
MAX_RETRIES == 3
RETRY_DELAY == 5

\* Exceptions of `await client.get(...)` that line 155 catches, and other
\* httpx transport errors, which it does not catch.
CaughtErrors == {"ConnectTimeout", "ReadTimeout", "ConnectError"}

OtherTransportErrors == {"ReadError", "WriteTimeout", "PoolTimeout"}

KuentaErrors ==
    {"KuentaAPIError", "KuentaConnectionError", "KuentaAuthError",
     "KuentaNotFoundError", "KuentaServerError"}

\* Status codes of a response, and the body of a 200: a JSON object, a JSON
\* array, or text that is not JSON.
KuentaStatuses == {200, 401, 404, 422, 500, 503}

KuentaBodies == {"object", "array", "no_json"}

GetOutcomes ==
    [exc : CaughtErrors \cup OtherTransportErrors, status : {0},
     body : {"none"}]
    \cup [exc : {"none"}, status : {200}, body : KuentaBodies]
    \cup [exc : {"none"}, status : KuentaStatuses \ {200}, body : {"none"}]

NoEnd == [how |-> "none", what |-> "none"]

Returned(what) == [how |-> "returned", what |-> what]

Raised(what) == [how |-> "raised", what |-> what]

IdleCall ==
    [pc |-> "idle", attempt |-> 0, history |-> <<>>, slept |-> <<>>,
     end |-> NoEnd]

\* _handle_http_error: the exception class raised for a status code.
handle_http_error(status_code) ==
    IF status_code \in {401, 403} THEN "KuentaAuthError"
    ELSE IF status_code = 404 THEN "KuentaNotFoundError"
    ELSE IF 500 <= status_code /\ status_code < 600 THEN "KuentaServerError"
    ELSE "KuentaAPIError"

\* Lines 149-153 on a response without error status: response.json(), the
\* logging line that reads data.get('data', {}), and the return.
SuccessEnd(o) ==
    IF o.body = "no_json" THEN Raised("JSONDecodeError")
    ELSE IF o.body = "array" THEN Raised("AttributeError")
    ELSE Returned("data")

Finish(k, end) == [k EXCEPT !.pc = "done", !.end = end]

SleepBeforeRetry(k) == [k EXCEPT !.pc = "sleep"]

\* One iteration of the loop, lines 146-174, on the outcome o of the GET.
GetStep(k, o) ==
    IF o.exc \in CaughtErrors
    THEN IF k.attempt = MAX_RETRIES
         THEN Finish(k, Raised("KuentaConnectionError"))
         ELSE SleepBeforeRetry(k)
    ELSE IF o.exc # "none" THEN Finish(k, Raised(o.exc))
    ELSE IF o.status >= 200 /\ o.status < 300 THEN Finish(k, SuccessEnd(o))
    ELSE IF 500 <= o.status /\ o.status < 600 /\ k.attempt < MAX_RETRIES
    THEN SleepBeforeRetry(k)
    ELSE Finish(k, Raised(handle_http_error(o.status)))

Engine == <<rc, tk, TOKEN_DATA, now, issued, ec>>

\* get_product_lines is called: the loop starts with attempt 1.
GetProductLines ==
    /\ kc.pc = "idle"
    /\ kc' = [kc EXCEPT !.pc = "get", !.attempt = 1]
    /\ UNCHANGED <<Engine, wb, pl>>

\* `await client.get(...)` completes with outcome o.
Get ==
    /\ kc.pc = "get"
    /\ \E o \in GetOutcomes :
          kc' = GetStep([kc EXCEPT !.history = Append(@, o)], o)
    /\ UNCHANGED <<Engine, wb, pl>>

\* `await asyncio.sleep(RETRY_DELAY * attempt)` completes: the next
\* iteration, or the end of the loop and of the function body.
Wake ==
    /\ kc.pc = "sleep"
    /\ LET k == [kc EXCEPT !.slept = Append(@, RETRY_DELAY * kc.attempt)]
       IN kc' = IF kc.attempt < MAX_RETRIES
                THEN [k EXCEPT !.pc = "get", !.attempt = @ + 1]
                ELSE Finish(k, Returned("None"))
    /\ UNCHANGED <<Engine, wb, pl>>

NextKuenta ==
    \/ GetProductLines
    \/ Get
    \/ Wake

(***************************************************************************)
(* utils/enviar_correo_IA.py: procesar_webhook_webinar and its dedup cache *)
(***************************************************************************)
WEBINAR_CACHE_TTL == 300
TickSeconds == 100      \* the clock time.time() is observed every 100 s
MaxTicks == 4           \* clock ticks after the first observation
NumWebhooks == 2        \* webinar webhook requests received in all

Webhooks == 1..NumWebhooks

\* Recipient addresses of a payload ("" : none) and client names.
Emails == {"", "ana@x.co", "ANA@X.CO", "luz@x.co"}

Nombres == {"Ana"}

\* str.lower() on the strings above.
Lower(str) ==
    CASE str = "ANA@X.CO" -> "ana@x.co"
      [] str = "Ana" -> "ana"
      [] OTHER -> str

\* Line 499: the dedup key of a recipient and a name.
DedupKey(destinatario, nombre) == <<Lower(destinatario), Lower(nombre)>>

DedupKeys == {DedupKey(e, n) : e \in Emails \ {""}, n \in Nombres}

NoKey == <<"", "">>

NewWebhook ==
    [pc |-> "new", key |-> NoKey, at |-> 0, answer |-> "none"]

\* webinar_request_cache maps a key to the time of its mark; 0 : no entry.
IdleWebhooks ==
    [ahora |-> TickSeconds,
     cache |-> [k \in DedupKeys |-> 0],
     sends |-> <<>>,
     req |-> [w \in Webhooks |-> NewWebhook]]

\* _marcar_y_verificar_reenvio_webinar: the value returned and the cache
\* after the call.
Reenvio(cache, llave, ahora) ==
    cache[llave] # 0 /\ (ahora - cache[llave]) < WEBINAR_CACHE_TTL

marcar_y_verificar_reenvio_webinar(cache, llave, ahora) ==
    IF Reenvio(cache, llave, ahora) THEN cache
    ELSE [cache EXCEPT ![llave] = ahora]

\* Lines 454-533, up to the first await: the recipient is chosen, the
\* request is checked against the cache and marked, then validated.
Receive(w) ==
    /\ wb.req[w].pc = "new"
    /\ \A v \in Webhooks : v < w => wb.req[v].pc # "new"
    /\ \E destinatario \in Emails, nombre \in Nombres, valid \in BOOLEAN :
        LET llave == DedupKey(destinatario, nombre)
            r == [wb.req[w] EXCEPT !.at = wb.ahora]
        IN IF destinatario = ""
           THEN wb' = [wb EXCEPT !.req[w] = [r EXCEPT !.pc = "no_recipient"]]
           ELSE IF Reenvio(wb.cache, llave, wb.ahora)
           THEN wb' = [wb EXCEPT !.req[w] =
                          [r EXCEPT !.pc = "done", !.key = llave,
                                    !.answer = "already_processed"]]
           ELSE wb' = [wb EXCEPT
                          !.cache = marcar_y_verificar_reenvio_webinar(
                                        wb.cache, llave, wb.ahora),
                          !.req[w] = [r EXCEPT !.key = llave,
                                      !.pc = IF valid THEN "announcing"
                                             ELSE "rejecting"]]
    /\ UNCHANGED <<Engine, kc, pl>>

\* `await error_notify(...)` of line 488 or 525 completes: the return.
Refused(w) ==
    /\ wb.req[w].pc \in {"no_recipient", "rejecting"}
    /\ wb' = [wb EXCEPT !.req[w].pc = "done",
                        !.req[w].answer =
                            IF wb.req[w].pc = "rejecting"
                            THEN "validation_failed" ELSE "no_recipient"]
    /\ UNCHANGED <<Engine, kc, pl>>

\* `await info_notify(...)` of line 542 completes and enviar_correo_webinar
\* is called: the send is attempted.
Announced(w) ==
    /\ wb.req[w].pc = "announcing"
    /\ wb' = [wb EXCEPT !.req[w].pc = "sending",
                        !.sends = Append(@, [key |-> wb.req[w].key,
                                             at |-> wb.ahora, by |-> w])]
    /\ UNCHANGED <<Engine, kc, pl>>

\* `await enviar_correo_webinar(...)` completes, lines 553-637: the answer
\* after the notifications and the database write that follow.
SendOutcomes == {"success", "error", "raised"}

Sent(w) ==
    /\ wb.req[w].pc = "sending"
    /\ \E outcome \in SendOutcomes :
          wb' = [wb EXCEPT !.req[w].pc = "done",
                           !.req[w].answer =
                               IF outcome = "success" THEN "sent"
                               ELSE "send_error"]
    /\ UNCHANGED <<Engine, kc, pl>>

\* time.time() advances.
ClockTick ==
    /\ wb.ahora < TickSeconds * (MaxTicks + 1)
    /\ wb' = [wb EXCEPT !.ahora = @ + TickSeconds]
    /\ UNCHANGED <<Engine, kc, pl>>

NextWebinar ==
    \/ \E w \in Webhooks : Receive(w)
    \/ \E w \in Webhooks : Refused(w)
    \/ \E w \in Webhooks : Announced(w)
    \/ \E w \in Webhooks : Sent(w)
    \/ ClockTick

(***************************************************************************)
(* db/connection.py: get_pool                                              *)
(***************************************************************************)
NumCallers == 3         \* tasks that call get_pool()
MaxPoolCalls == 4       \* get_pool() calls made in all

Callers == 1..NumCallers

NoPool == 0             \* _pool is None

NoCaller == 0           \* _pool_lock is not held

CreateOutcomes == {"created", "raised"}

NewCaller == [pc |-> "idle", got |-> NoPool, waited |-> FALSE]

\* _pool and _pool_lock after the import of the module; invoked, created
\* and failed count the aiomysql.create_pool calls and how they ended,
\* returned collects the pools handed to callers.
IdlePool ==
    [pool |-> NoPool, lock |-> NoCaller, invoked |-> 0, created |-> 0,
     failed |-> 0, calls |-> 0, returned |-> {},
     task |-> [t \in Callers |-> NewCaller]]

\* Line 28 (and 16): the caller receives _pool.
ReturnPool(p, t) ==
    [p EXCEPT !.task[t].pc = "done", !.task[t].got = p.pool,
              !.returned = @ \cup {p.pool}]

\* Lines 17-19 once _pool_lock is acquired, without the check of line 18.
InsideLock_unchecked(p, t) ==
    [p EXCEPT !.lock = t, !.invoked = @ + 1, !.task[t].pc = "creating"]

\* Lines 17-19 once _pool_lock is acquired by t: the second check, then the
\* call of aiomysql.create_pool, or the release of the lock and line 28.
InsideLock(p, t) ==
    IF p.pool = NoPool
    THEN [p EXCEPT !.lock = t, !.invoked = @ + 1, !.task[t].pc = "creating"]
    ELSE ReturnPool(p, t)

\* get_pool() is called, lines 14-19 up to the first suspension: the fast
\* path, the wait for the lock, or the lock taken at once.
CallGetPool(t) ==
    /\ pl.task[t].pc \in {"idle", "done", "raised"}
    /\ pl.calls < MaxPoolCalls
    /\ LET p == [pl EXCEPT !.calls = @ + 1, !.task[t] = NewCaller]
       IN pl' = IF p.pool # NoPool THEN ReturnPool(p, t)
                ELSE IF p.lock # NoCaller
                THEN [p EXCEPT !.task[t].pc = "waiting",
                               !.task[t].waited = TRUE]
                ELSE InsideLock(p, t)
    /\ UNCHANGED <<Engine, kc, wb>>

\* `await _pool_lock.acquire()` completes for a waiting caller.
LockAcquired(t) ==
    /\ pl.task[t].pc = "waiting"
    /\ pl.lock = NoCaller
    /\ pl' = InsideLock(pl, t)
    /\ UNCHANGED <<Engine, kc, wb>>

\* `await aiomysql.create_pool(...)` completes: _pool is assigned, the lock
\* is released and _pool returned; or the exception leaves get_pool through
\* the `async with`, which releases the lock.
CreatePoolDone(t) ==
    /\ pl.task[t].pc = "creating"
    /\ \E outcome \in CreateOutcomes :
          pl' = IF outcome = "created"
                THEN ReturnPool([pl EXCEPT !.pool = pl.created + 1,
                                           !.created = @ + 1,
                                           !.lock = NoCaller], t)
                ELSE [pl EXCEPT !.failed = @ + 1, !.lock = NoCaller,
                                !.task[t].pc = "raised"]
    /\ UNCHANGED <<Engine, kc, wb>>

NextPool ==
    \/ \E t \in Callers : CallGetPool(t)
    \/ \E t \in Callers : LockAcquired(t)
    \/ \E t \in Callers : CreatePoolDone(t)

(***************************************************************************)
(* Specifications                                                          *)
(***************************************************************************)
InitShared ==
    /\ tk = [t \in Tasks |-> NewTask]
    /\ TOKEN_DATA = EmptyTokenData
    /\ now = 0
    /\ issued = 0
    /\ kc = IdleCall
    /\ wb = IdleWebhooks
    /\ pl = IdlePool

\* An ExternalClient as from_code builds it, with header/body values that
\* json.dumps can or cannot serialize.
InitRun ==
    /\ rc \in Clients
    /\ ec = IdleClient
    /\ InitShared

InitTok ==
    /\ rc = NewRun(0, TRUE)
    /\ ec = IdleClient
    /\ InitShared

\* The caller is about to await ExternalClient.from_code(codigo).
InitInvoke ==
    /\ rc = [NewRun(0, TRUE) EXCEPT !.pc = "from_code"]
    /\ ec = IdleClient
    /\ InitShared

\* A client with its templates, before set_dynamic_values and run().
InitRender ==
    /\ ec \in Templates
    /\ rc = NewRun(0, TRUE)
    /\ InitShared

SpecRun == InitRun /\ [][NextRun]_vars

SpecInvoke == InitInvoke /\ [][NextInvoke]_vars

SpecRender == InitRender /\ [][NextRender]_vars

\* A client with its templates, on which run() and the setters are called.
InitSend ==
    /\ ec \in SendTemplates
    /\ rc = NewRun(0, TRUE)
    /\ InitShared

SpecSend == InitSend /\ [][NextSend]_vars

SpecTok == InitTok /\ [][NextTok]_vars

\* One get_product_lines() call, one webinar webhook process, one process
\* with its connection pool: the engine above stays idle.
InitIdle ==
    /\ rc = NewRun(0, TRUE)
    /\ ec = IdleClient
    /\ InitShared

SpecKuenta == InitIdle /\ [][NextKuenta]_vars

SpecWebinar == InitIdle /\ [][NextWebinar]_vars

SpecPool == InitIdle /\ [][NextPool]_vars

(***************************************************************************)
(* Properties of ExternalClient.run() (SpecRun)                            *)
(***************************************************************************)
Is2xx(status) == status \in 200 .. 299
Is4xx(status) == status \in 400 .. 499
Is5xx(status) == status \in 500 .. 599

AllConn(trace) == \A i \in 1 .. Len(trace) : trace[i].kind = "conn"

\* C1: when the request could be rendered and every attempt so far ended in a
\* connection error, run() has sent at most reintentos + 1 requests, and
\* once it has returned it has sent exactly reintentos + 1.
C1_RetryBound ==
    (rc.serializable /\ AllConn(rc.trace)) =>
        /\ rc.requests <= rc.reintentos + 1
        /\ rc.pc = "done" =>
              /\ rc.requests = rc.reintentos + 1
              /\ Len(rc.trace) = rc.reintentos + 1

C1_Witness ==
    /\ rc.pc = "done"
    /\ rc.reintentos = MaxReintentos
    /\ AllConn(rc.trace)
    /\ rc.requests = MaxReintentos + 1
    /\ rc.sleeps = MaxReintentos * BackoffSeconds
    /\ rc.result = DictResult(503, ErrorData)

\* C2: a 4xx response on attempt i ends the invocation: no request is sent
\* after it, and the value returned carries that status code.
C2_Terminal4xx ==
    \A i \in 1 .. Len(rc.trace) :
        (rc.trace[i].kind = "resp" /\ Is4xx(rc.trace[i].status)) =>
            /\ rc.requests = i
            /\ rc.pc = "done" =>
                  /\ rc.result.type = "dict"
                  /\ rc.result.status = rc.trace[i].status

\* C8: a 2xx response on attempt i (any status 200..299) ends the attempt
\* loop: no request is sent after it, and run() returns a success dict with
\* that status.
C8_Any2xxSuccess ==
    \A i \in 1 .. Len(rc.trace) :
        (rc.trace[i].kind = "resp" /\ Is2xx(rc.trace[i].status)) =>
            /\ rc.requests = i
            /\ rc.pc = "done" =>
                  /\ rc.result.type = "dict"
                  /\ rc.result.status = rc.trace[i].status

\* C9: when run() has returned after reintentos + 1 attempts of which the
\* last one failed, the value returned is not None and carries the last
\* failure: 504 after a timeout, 503 after a connection error, the response
\* status after a 5xx.
C9_LastFailureReturned ==
    LET n == Len(rc.trace)
        last == rc.trace[n]
    IN  (/\ rc.pc = "done"
         /\ n = rc.reintentos + 1
         /\ ~(last.kind = "resp" /\ Is2xx(last.status))) =>
            /\ rc.result.type # "None"
            /\ last.kind = "timeout" => rc.result.status = 504
            /\ last.kind = "conn" => rc.result.status = 503
            /\ (last.kind = "resp" /\ Is5xx(last.status)) =>
                  rc.result.status = last.status

\* C10: run() never ends by raising: for every sequence of transport
\* outcomes, outcome of the notification and outcome of the audit write,
\* the coroutine is never left by an exception, and until it has returned
\* it has a next step.
C10_NeverRaises ==
    /\ rc.pc # "raised"
    /\ rc.pc # "done" => ENABLED NextRun

C10_Witness ==
    /\ rc.pc = "done"
    /\ \E i \in 1 .. Len(rc.trace) :
          rc.trace[i].kind = "resp" /\ ~Is2xx(rc.trace[i].status)
    /\ \E i \in 1 .. Len(rc.trace) : rc.trace[i].kind \in {"conn", "timeout"}
    /\ \E i \in 1 .. Len(rc.audits) : ~rc.audits[i].persisted

(***************************************************************************)
(* Properties of obtener_token() (SpecTok)                                 *)
(***************************************************************************)
Ended(t) == tk[t].pc \in {"returned", "raised"}

\* C3: starting from the empty cache, with every task calling once at the
\* same second and every request answered with a token, at most one request
\* goes to the credential endpoint and all callers that returned hold the
\* same token.
C3_SingleFlight ==
    (/\ now = 0
     /\ \A t \in Tasks : tk[t].calls <= 1
     /\ NetCalls = issued) =>
        /\ NetCalls <= 1
        /\ \A t, u \in Tasks :
              (tk[t].pc = "returned" /\ tk[u].pc = "returned") =>
                  tk[t].ret = tk[u].ret

\* C4: a call returns the cached token, with no request sent, exactly when
\* the cache holds a token and now + 30 < expires_at; in every other case
\* (expires_at = now + 30 and expires_at = now + 29 included) the call goes
\* on to refresh and does not end without a request to the endpoint.
C4_ExpiryBoundary ==
    \A t \in Tasks :
        /\ tk[t].snap.taken =>
              (tk[t].hit <=> (/\ tk[t].snap.access_token # 0
                              /\ Margin < tk[t].snap.left))
        /\ tk[t].hit =>
              /\ tk[t].snap.taken
              /\ tk[t].pc = "returned"
              /\ tk[t].ret = tk[t].snap.access_token
              /\ tk[t].nets = 0
        /\ (tk[t].snap.taken /\ ~tk[t].hit) => tk[t].pc = "from_code"
        /\ (Ended(t) /\ ~tk[t].hit) => tk[t].nets >= 1

C4_Witness ==
    \E t \in Tasks :
        /\ tk[t].snap.taken
        /\ tk[t].snap.access_token # 0
        /\ tk[t].snap.left = Margin
        /\ tk[t].pc = "from_code"

\* C5: a call whose refresh failed ends by raising and has not written
\* TOKEN_DATA.
C5_FailurePropagated ==
    \A t \in Tasks :
        (Ended(t) /\ tk[t].failed) => (tk[t].pc = "raised" /\ ~tk[t].stored)

\* C6: whenever TOKEN_DATA.expires_at lies in the future, access_token is a
\* token the credential endpoint issued, never None.
C6_NoEmptyTokenCached ==
    TOKEN_DATA.expires_at > now => TOKEN_DATA.access_token \in 1 .. issued

\* C7: every call that returns a token it has just obtained from the
\* endpoint has written that token to TOKEN_DATA.
C7_FreshTokenStored ==
    \A t \in Tasks :
        (tk[t].pc = "returned" /\ tk[t].fresh) => tk[t].stored

\* C11: when the store has no active definition for the code, the invocation
\* ends with the configuration-missing error at once: the lookup was made
\* exactly once, no HTTP request was sent, and nothing further happens.
C11_ConfigMissingImmediate ==
    /\ rc.lookups <= 1
    /\ (rc.lookups >= 1 /\ ~rc.found) =>
          /\ rc.pc = "config_missing"
          /\ rc.lookups = 1
          /\ rc.requests = 0
          /\ ~ENABLED NextInvoke

C11_Witness == rc.pc = "config_missing" /\ rc.lookups = 1

(***************************************************************************)
(* Properties of an invocation by code and of the audit writes             *)
(***************************************************************************)
\* The caller holds a success: a dict with status 200 or 201.
SuccessOutcome(r) ==
    r.pc = "done" /\ r.result.type = "dict" /\ IsSuccessStatus(r.result.status)

\* The invocation has ended, in from_code or in run(), with anything else.
FailureOutcome(r) ==
    \/ r.pc = "config_missing"
    \/ r.pc = "done" /\ ~SuccessOutcome(r)

\* C12: every invocation that has ended in a failure outcome has asked
\* insertar_log for at least one audit row.
C12_FailureAudited == FailureOutcome(rc) => Len(rc.audits) >= 1

\* What the caller and the retry loop can observe of a frame: everything but
\* the audit rows.
Observable(r) == [r EXCEPT !.audits = <<>>]

\* Every way a call of _log_error can go: json.dumps(self.body) raising
\* inside it or not, insertar_log returning True or False.
AuditBehaviours ==
    {LogError(b, db) : b \in BOOLEAN, db \in InsertarLogOutcomes}

\* C13: a failing audit write is swallowed.  Wherever run() awaits
\* _log_error, what it does next (the next attempt, the returned outcome, the
\* count of requests) is the same for every audit behaviour as for a
\* successful write, and no exception reaches the caller.
C13_AuditFailureSwallowed ==
    LET ok == LogError(TRUE, TRUE)
    IN  /\ rc.pc # "raised"
        /\ rc.pc = "log_http" =>
              \A l \in AuditBehaviours :
                  Observable(LogHttpStep(rc, l)) = Observable(LogHttpStep(rc, ok))
        /\ rc.pc = "log_final" =>
              \A l \in AuditBehaviours :
                  Observable(LogFinalStep(rc, l)) = Observable(LogFinalStep(rc, ok))
        /\ rc.pc = "log_critical" =>
              \A l \in AuditBehaviours :
                  Observable(LogCriticalStep(rc, l))
                      = Observable(LogCriticalStep(rc, ok))

\* run() has returned after an audit write that failed, or after one that
\* was never issued because building its arguments raised.
C13_Witness ==
    /\ rc.pc = "done"
    /\ \/ \E i \in 1 .. Len(rc.audits) : ~rc.audits[i].persisted
       \/ ~rc.bodyOk /\ rc.result.status = 500

\* run() is suspended on `await self._log_error(...)`, which in turn awaits
\* insertar_log.
AwaitingAudit(r) ==
    r.bodyOk /\ r.pc \in {"log_http", "log_final", "log_critical"}

\* C14: the audit write is fire-and-forget.  While an audit write is
\* outstanding run() can go on (send the next request, sleep, return)
\* without the write having completed.
C14_AuditNonBlocking ==
    AwaitingAudit(rc) =>
        ENABLED (RunBegin \/ NotifyPre \/ SendRequest \/ ReceiveOutcome
                    \/ NotifyOk \/ Sleep)

(***************************************************************************)
(* Further properties of ExternalClient.run() (SpecRun)                    *)
(***************************************************************************)
\* The attempt ended in a failure the retry policy retries: an exception of
\* the transport or an HTTP 5xx response.
RetryableFailure(e) == e.kind # "resp" \/ Is5xx(e.status)

\* C15: a backoff delay lies between every two consecutive attempts, whatever
\* ended the earlier one: when the earlier attempts ended in connection
\* errors, timeouts or HTTP 5xx responses and request number n is in flight,
\* run() has slept n - 1 times BackoffSeconds.
C15_BackoffBetweenAttempts ==
    (/\ rc.pc = "inflight"
     /\ \A i \in 1 .. Len(rc.trace) : RetryableFailure(rc.trace[i])) =>
        rc.sleeps = (rc.requests - 1) * BackoffSeconds

\* C16: a 2xx response whose body cannot be parsed ends run() with a failure
\* outcome: it is not retried and not reported as a success.  Stated for the
\* statuses 200 and 201, which run() takes as success.
C16_MalformedBodyFails ==
    \A i \in 1 .. Len(rc.trace) :
        (/\ rc.trace[i].kind = "resp"
         /\ IsSuccessStatus(rc.trace[i].status)
         /\ rc.trace[i].shape = "text") =>
            /\ rc.requests = i
            /\ rc.pc = "done" => rc.result.type # "None" /\ ~SuccessOutcome(rc)

\* C17: run() never upgrades a failure to a success.  When it has returned a
\* dict with status 200 or 201, the attempt it stopped on, the last one
\* made, received a 2xx response with that status.
C17_NoUpgrade ==
    SuccessOutcome(rc) =>
        LET n == Len(rc.trace)
        IN  /\ n >= 1
            /\ n = rc.requests
            /\ rc.trace[n].kind = "resp"
            /\ Is2xx(rc.trace[n].status)
            /\ rc.trace[n].status = rc.result.status

\* A success returned after earlier attempts that failed.
C17_Witness ==
    /\ SuccessOutcome(rc)
    /\ Len(rc.trace) >= 2
    /\ rc.trace[1].kind = "conn"

(***************************************************************************)
(* Properties of rendering (SpecRender)                                    *)
(***************************************************************************)
\* The str values anywhere in a value, at any depth of dicts and lists.
RECURSIVE StringLeaves(_)
StringLeaves(v) ==
    IF v.t = "str" THEN {v.s}
    ELSE UNION {StringLeaves(v.kids[i]) : i \in 1 .. Len(v.kids)}

\* Every place where a placeholder {name} occurs in s: "{" at x[1], "}" at
\* x[2], a non-empty name without "}" between them.
Occurrences(s) ==
    {x \in (1 .. Len(s)) \X (1 .. Len(s)) :
        /\ s[x[1]] = "{"
        /\ s[x[2]] = "}"
        /\ x[2] > x[1] + 1
        /\ \A m \in (x[1] + 1) .. (x[2] - 1) : s[m] # "}"}

PlaceholderNames(s) == {SubSeq(s, x[1] + 1, x[2] - 1) : x \in Occurrences(s)}

\* No placeholder of the value has an entry in the context.
NoBoundPlaceholder(v, dynamic_values) ==
    \A s \in StringLeaves(v) :
        PlaceholderNames(s) \cap DOMAIN dynamic_values = {}

TemplateOf(b) == [url |-> b.url, header |-> b.header, body |-> b.body]

\* C18: rendering leaves unchanged everything that is not a placeholder with
\* a context entry.  When no placeholder of url, header and body has its
\* name in dynamic_values (in particular when there is no placeholder), the
\* rendered url, header and body equal the templates.
C18_PassThrough ==
    (/\ ec.runs >= 1
     /\ NoBoundPlaceholder(ec.before.url, ec.before.dynamic_values)
     /\ NoBoundPlaceholder(ec.before.header, ec.before.dynamic_values)
     /\ NoBoundPlaceholder(ec.before.body, ec.before.dynamic_values)) =>
        ec.final = TemplateOf(ec.before)

\* A body whose placeholder {a} has no entry in a context that has one for b
\* was rendered to itself.
C18_Witness ==
    /\ ec.runs >= 1
    /\ DOMAIN ec.before.dynamic_values = {<<"b">>}
    /\ ec.before.body = DictNode(<<"k">>, <<StrNode(<<"{", "a", "}">>)>>)
    /\ ec.final.body = ec.before.body

\* The rendering the specification describes: recursion into every dict
\* value and every list element, replacement at every str.
RECURSIVE RenderAll(_, _)
RenderAll(v, dynamic_values) ==
    CASE v.t = "str" -> replace_variables(v, dynamic_values)
      [] v.t \in {"dict", "list"} ->
            [v EXCEPT !.kids = [i \in 1 .. Len(v.kids) |->
                                   RenderAll(v.kids[i], dynamic_values)]]
      [] OTHER -> v

\* C19: rendering gives a value of the same shape with the placeholders
\* replaced at every string leaf, those that are elements of lists and of
\* nested lists included, and everything else untouched.
C19_EveryLeafRendered ==
    ec.runs >= 1 =>
        LET dv == ec.before.dynamic_values
        IN  ec.final = [url |-> RenderAll(ec.before.url, dv),
                        header |-> RenderAll(ec.before.header, dv),
                        body |-> RenderAll(ec.before.body, dv)]

Plain(s) == \A i \in 1 .. Len(s) : s[i] \notin {"{", "}"}

\* C21: substitution is single-pass.  A url made of plain text around one
\* placeholder {name} whose name has a context entry renders to that text
\* around str(context[name]) verbatim, also when the value is itself a
\* placeholder with a context entry, its own included.
C21_SinglePass ==
    ec.runs >= 1 /\ ec.before.url.t = "str" =>
        LET s == ec.before.url.s
            dv == ec.before.dynamic_values
        IN  \A i, j \in 1 .. Len(s) :
                LET p == SubSeq(s, 1, i - 1)
                    name == SubSeq(s, i + 1, j - 1)
                    q == SubSeq(s, j + 1, Len(s))
                IN  (/\ s[i] = "{" /\ s[j] = "}" /\ i < j
                     /\ Plain(p) /\ Plain(q)
                     /\ name \in DOMAIN dv) =>
                        ec.final.url = StrNode(p \o Str(dv[name]) \o q)

\* The self-referential context {b: "{b}"} was used on the url "{b}".
C21_Witness ==
    /\ ec.runs >= 1
    /\ ec.before.url = StrNode(<<"{", "b", "}">>)
    /\ <<"b">> \in DOMAIN ec.before.dynamic_values
    /\ ec.before.dynamic_values[<<"b">>] = StrNode(<<"{", "b", "}">>)
    /\ ec.final.url = StrNode(<<"{", "b", "}">>)

(***************************************************************************)
(* Order of the steps of ExternalClient.run() (SpecRun)                    *)
(***************************************************************************)
\* Requests sent whose outcome run() does not know yet.
InFlight(r) == r.requests - Len(r.trace)

\* C22: the attempts of one run() are strictly sequential.  At most one
\* request is in flight, exactly when run() is suspended on the await of
\* client.request, so a request leaves only when the outcomes of all
\* earlier ones are known.
C22_SequentialAttempts ==
    /\ InFlight(rc) \in {0, 1}
    /\ InFlight(rc) = 1 <=> rc.pc = "inflight"

\* A second request in flight after the outcome of the first.
C22_Witness == rc.pc = "inflight" /\ rc.requests >= 2 /\ Len(rc.trace) >= 1

(***************************************************************************)
(* Properties of the attempts of a run() under late setter calls (SpecSend) *)
(***************************************************************************)
\* C23: the request is rendered once per run().  Every attempt sends the
\* url, headers and body rendered from the templates and context as they
\* were when run() began, whatever the setters have changed since.
C23_RenderedOnce ==
    \A i \in 1 .. Len(ec.sent) :
        ec.sent[i] =
            [url |-> replace_variables(ec.before.url, ec.before.dynamic_values),
             header |-> process_dict(ec.before.header, ec.before.dynamic_values),
             body |-> process_dict(ec.before.body, ec.before.dynamic_values)]

\* Two attempts were sent and the setters changed the instance meanwhile so
\* that rendering it now would give another request.
C23_Witness ==
    /\ Len(ec.sent) >= 2
    /\ Self(ec) # ec.before
    /\ Rendered(ec) # ec.final

(***************************************************************************)
(* The notification sink in ExternalClient.run() (SpecRun)                 *)
(***************************************************************************)
\* run() is suspended on `await info_notify(...)`.
AwaitingNotify(r) == r.pc \in {"notify_pre", "notify_ok"}

\* C24: the notification sink never blocks the invocation path.  While a
\* notification is outstanding run() can go on (send its request, return
\* its outcome) without the notification having completed.
C24_NotifyNonBlocking ==
    AwaitingNotify(rc) =>
        ENABLED (RunBegin \/ SendRequest \/ ReceiveOutcome \/ LogHttp
                    \/ LogFinal \/ LogCritical \/ Sleep)

C27_ReturnsMapping == rc.pc = "done" => rc.result.type = "dict"

(***************************************************************************)
(* Further properties of obtener_token() (SpecTok)                         *)
(***************************************************************************)
\* C26: reads of the credential cache never observe a half-written slot.
\* Whenever a task reads TOKEN_DATA at line 15, its access_token and
\* expires_at were assigned by the same refresh.
C26_NoTornRead == [][(\E t \in Tasks : Call(t)) => ~TOKEN_DATA.torn]_vars

(***************************************************************************)
(* C28: get_product_lines                                                  *)
(***************************************************************************)
HttpAttempts(k) == Len(k.history)

LastOutcome(k) == k.history[Len(k.history)]

ConnectionFailure(o) == o.exc # "none"

ServerError(o) == o.exc = "none" /\ 500 <= o.status /\ o.status < 600

ClientError(o) == o.exc = "none" /\ 400 <= o.status /\ o.status < 500

Success(o) == o.exc = "none" /\ 200 <= o.status /\ o.status < 300

\* No call makes more than 3 HTTP attempts.
AtMostThreeAttempts == HttpAttempts(kc) <= 3

\* A retry follows only a connection failure or a 5xx, only while attempts
\* remain, and the delay before attempt i + 1 is 5 * i seconds.
RetriedWhileAttemptsRemain ==
    /\ kc.pc = "sleep" =>
          /\ HttpAttempts(kc) < 3
          /\ ConnectionFailure(LastOutcome(kc)) \/ ServerError(LastOutcome(kc))
    /\ \A i \in 1..Len(kc.slept) : kc.slept[i] = 5 * i

\* A 4xx response ends the call on its attempt.
ClientErrorEndsCall ==
    \A i \in 1..HttpAttempts(kc) :
       ClientError(kc.history[i]) => i = HttpAttempts(kc) /\ kc.pc = "done"

\* The call ends by returning the parsed data of a successful response or by
\* raising a KuentaAPIError subclass: KuentaConnectionError after a
\* connection failure, KuentaServerError after a final 5xx.
EndsWithDataOrKuentaError ==
    kc.pc = "done" =>
       \/ kc.end = Returned("data") /\ Success(LastOutcome(kc))
       \/ /\ kc.end.how = "raised"
          /\ kc.end.what \in KuentaErrors
          /\ ConnectionFailure(LastOutcome(kc)) =>
                kc.end.what = "KuentaConnectionError" /\ HttpAttempts(kc) = 3
          /\ ServerError(LastOutcome(kc)) => kc.end.what = "KuentaServerError"

\* C28: get_product_lines makes at most 3 HTTP attempts; a connection
\* failure or a 5xx is retried, after 5 * attempt seconds, only while
\* attempts remain; a 4xx ends the call on its attempt; and the call ends by
\* returning the data of a successful response or by raising a
\* KuentaAPIError subclass, never by returning None.
C28_ProductLines ==
    /\ AtMostThreeAttempts
    /\ RetriedWhileAttemptsRemain
    /\ ClientErrorEndsCall
    /\ EndsWithDataOrKuentaError

\* The call never ends by falling off the loop.
NeverReturnsNone == kc.end # Returned("None")

(***************************************************************************)
(* C29: webinar dedup                                                      *)
(***************************************************************************)
Sends == 1..Len(wb.sends)

\* Two send attempts of one key are at least 300 seconds apart.
OneSendPerWindow ==
    \A i, j \in Sends :
       i < j /\ wb.sends[i].key = wb.sends[j].key =>
          wb.sends[j].at - wb.sends[i].at >= 300

SendFailed(i) == wb.req[wb.sends[i].by].answer = "send_error"

\* A request answered "already processed recently" follows a send attempt
\* of its key, not failed, made within the preceding 300 seconds.
SuppressedOnlyAfterSend ==
    \A w \in Webhooks :
       wb.req[w].answer = "already_processed" =>
          \E i \in Sends :
             /\ wb.sends[i].key = wb.req[w].key
             /\ wb.sends[i].at <= wb.req[w].at
             /\ wb.req[w].at - wb.sends[i].at <= 300
             /\ ~SendFailed(i)

\* C29: for one dedup key at most one webinar e-mail send is attempted
\* within any 300-second window, and a request is answered "already
\* processed recently" only if a send for its key was attempted within the
\* preceding 300 seconds; a request rejected by validation or whose send
\* failed does not suppress a later one.
C29_WebinarDedup == OneSendPerWindow /\ SuppressedOnlyAfterSend

\* A request was suppressed by an earlier one that validation rejected.
SuppressedByRejected ==
    \E v, w \in Webhooks :
       /\ wb.req[v].answer = "validation_failed"
       /\ wb.req[w].answer = "already_processed"
       /\ wb.req[w].key = wb.req[v].key
       /\ wb.sends = <<>>

(***************************************************************************)
(* C30: get_pool                                                           *)
(***************************************************************************)
\* All callers that returned hold the one pool that _pool holds.
SamePoolForAll ==
    /\ Cardinality(pl.returned) <= 1
    /\ \A t \in Callers :
          pl.task[t].pc = "done" =>
             pl.task[t].got = pl.pool /\ pl.pool # NoPool

\* aiomysql.create_pool is invoked at most one time and every caller
\* receives the same pool object.
C30_InvokedOnce == pl.invoked <= 1 /\ SamePoolForAll

\* C30: get_pool creates the connection pool at most once under any
\* interleaving of concurrent calls: at most one aiomysql.create_pool call
\* succeeds, a further call is made only after an earlier one raised, never
\* two at a time, and every caller that returns receives the same pool.
C30_PoolCreatedOnce ==
    /\ pl.created <= 1
    /\ pl.invoked <= pl.failed + 1
    /\ Cardinality({t \in Callers : pl.task[t].pc = "creating"}) <= 1
    /\ SamePoolForAll

\* Two callers have returned the pool, one of them after waiting for the
\* lock while the other one created it.
C30_Witness ==
    \E t, u \in Callers :
       /\ t # u
       /\ pl.task[t].pc = "done" /\ pl.task[t].waited
       /\ pl.task[u].pc = "done" /\ ~pl.task[u].waited
       /\ pl.created = 1
       /\ pl.invoked = 1

====
